---- MODULE Spec2Model ----
(***************************************************************************)
(* Model of generate.go: discovery of protocol versions in an upstream     *)
(* tree (readProtoVersionBlobRefs), synthesis of one commit and one tag    *)
(* per unreleased version (createStableTags) and conversion of a staged    *)
(* directory into git blob and tree objects (slurpDirIntoGitTree).         *)
(*                                                                         *)
(* Content hashes are modelled by the hashed content itself, so two        *)
(* objects have the same hash exactly when they encode to the same bytes.  *)
(***************************************************************************)
EXTENDS Naturals, Sequences, FiniteSets, TLC

\* ------------------------------------------------------------ bounds
\* Number of createStableTags calls one process makes.
MaxRuns == 2
\* Last value of the wall clock read by time.Now().
MaxTime == 1
\* Number of createStableTags calls of each of two concurrent processes.
ConcRuns == 1
\* Number of createStableTags calls when a command may never exit.
GenRuns == 1
\* Longest directory listing handed to readProtoVersionBlobRefs.
MaxEntries == 3
\* Largest directory whose entries are enumerated in every order.
EnumWidth == 2

\* ---------------------------------------------------------- versions
Ver(ma, mi, pa) == [Major |-> ma, Minor |-> mi, Patch |-> pa]

\* versions.Unspecified, the zero Version.
Unspecified == Ver(0, 0, 0)

\* Version.String(): "<major>.<minor>.<patch>".
VString(v) == ToString(v.Major) \o "." \o ToString(v.Minor) \o "." \o ToString(v.Patch)

\* tagName := "v" + v.String()
TagName(v) == "v" \o VString(v)

\* fmt.Sprintf(".../v%d", v.Major)
ModulePath(v) == "github.com/apparentlymart/terraform-plugin-proto-go/v" \o ToString(v.Major)

\* fmt.Sprintf("tfplugin%d", v.Major)
PackageDirName(v) == "tfplugin" \o ToString(v.Major)

\* fmt.Sprintf("tfplugin%d.proto", v.Major)
ProtoFileName(v) == "tfplugin" \o ToString(v.Major) \o ".proto"

\* The file protoc writes beside the schema.
PbFileName(v) == "tfplugin" \o ToString(v.Major) \o ".pb.go"

\* A message that names the version in full, as Version.String() prints it.
CommitMessageFull(v) ==
    "Auto-generated Go module for Terraform plugin protocol v" \o VString(v)

\* fmt.Sprintf("Auto-generated Go module for Terraform plugin protocol v%d.%d",
\*             v.Major, v.Minor)
CommitMessage(v) ==
    "Auto-generated Go module for Terraform plugin protocol v"
        \o ToString(v.Major) \o "." \o ToString(v.Minor)

\* The versions the catalogs of the model range over.
Versions == {Ver(5, 1, 0), Ver(5, 2, 0)}

\* Content hashes of protocol definition blobs in the upstream repository.
BlobHashes == {"h1", "h2"}

\* The blobs whose schema protoc cannot compile.
BadBlobs == {"h2"}

\* Every map[versions.Version]gitPlumbing.Hash over Versions.
Catalogs == UNION {[S -> BlobHashes] : S \in SUBSET Versions}

\* ------------------------------------------------- staged directories
\* A directory is a set of nodes; a node is a file, a directory or an
\* irregular file (a pipe), with its permission bits.
FileNode(n, perm, bytes) ==
    [name |-> n, kind |-> "file", perm |-> perm, bytes |-> bytes, children |-> {}]

DirNode(n, children) ==
    [name |-> n, kind |-> "dir", perm |-> "rwx", bytes |-> "", children |-> children]

PipeNode(n) ==
    [name |-> n, kind |-> "pipe", perm |-> "rw", bytes |-> "", children |-> {}]

\* Every file name of the model, in the byte order of Go's string "<".
NameOrder ==
    << "go.mod", "go.sum",
       "tfplugin5", "tfplugin5.pb.go", "tfplugin5.proto",
       "tfplugin6", "tfplugin6.pb.go", "tfplugin6.proto" >>

Names == {NameOrder[i] : i \in 1..Len(NameOrder)}

NameIndex(n) == CHOOSE i \in 1..Len(NameOrder) : NameOrder[i] = n

\* list[i].Name() < list[j].Name()
NameLess(a, b) == NameIndex(a) < NameIndex(b)

\* The orders in which the operating system may enumerate the entries of a
\* directory: every permutation of up to EnumWidth entries.
EnumOrders ==
    {f \in [1..EnumWidth -> 1..EnumWidth] :
        \A i, j \in 1..EnumWidth : i # j => f[i] # f[j]}

RECURSIVE NodesByName(_)
\* The nodes of directory dir as a sequence, the least name first.
NodesByName(dir) ==
    IF dir = {} THEN << >>
    ELSE LET first == CHOOSE x \in dir :
                         \A y \in dir : NameIndex(x.name) <= NameIndex(y.name)
         IN  << first >> \o NodesByName(dir \ {first})

RECURSIVE TakeBySlot(_, _, _)
\* The nodes of byName in increasing order of the slots ord gives them.
TakeBySlot(byName, ord, slots) ==
    IF slots = {} THEN << >>
    ELSE LET m == CHOOSE s \in slots : \A t \in slots : s <= t
             i == CHOOSE k \in 1..Len(byName) : ord[k] = m
         IN  << byName[i] >> \o TakeBySlot(byName, ord, slots \ {m})

\* f.Readdir(-1): the entries of dir in the order the operating system
\* yields them, the permutation ord of their names (a directory of more
\* than EnumWidth entries is yielded in one fixed order).
Enumerate(dir, ord) ==
    LET byName == NodesByName(dir)
        n == Len(byName)
    IN  IF n <= EnumWidth
          THEN TakeBySlot(byName, ord, {ord[i] : i \in 1..n})
          ELSE byName

RECURSIVE Insert(_, _)
\* Insertion of node x into the name-sorted sequence s.
Insert(s, x) ==
    IF s = << >> THEN << x >>
    ELSE IF NameLess(x.name, Head(s).name) THEN << x >> \o s
    ELSE << Head(s) >> \o Insert(Tail(s), x)

RECURSIVE SortByName(_)
\* sort.Slice(list, func(i, j) { return list[i].Name() < list[j].Name() })
SortByName(s) ==
    IF s = << >> THEN << >> ELSE Insert(SortByName(Tail(s)), Head(s))

\* A directory listing that is returned in the order of enumeration.
ReadDirUnsorted(dir, ord) == Enumerate(dir, ord)

\* ioutil.ReadDir: the entries of the directory, sorted by file name.
ReadDir(dir, ord) == SortByName(Enumerate(dir, ord))

\* gitFileMode.NewFromOSFileMode
NewFromOSFileMode(info) ==
    CASE info.kind = "dir" -> "40000"
      [] info.kind = "file" /\ info.perm = "rwx" -> "100755"
      [] info.kind = "file" -> "100644"
      [] OTHER -> "invalid"

\* Hashes: a blob's is its bytes, a tree's is its encoded entries.
ZeroHash == [kind |-> "zero", blob |-> "", tree |-> << >>]
BlobHash(bytes) == [kind |-> "blob", blob |-> bytes, tree |-> << >>]
TreeHash(entries) == [kind |-> "tree", blob |-> "", tree |-> entries]

TreeEntry(n, mode, hash) == [Name |-> n, Mode |-> mode, Hash |-> hash]

RECURSIVE SlurpFrom(_, _, _)
RECURSIVE slurpDirIntoGitTree(_, _)
\* The loop of slurpDirIntoGitTree over the listing infos, from the
\* accumulated tree entries and object writes acc.
SlurpFrom(infos, acc, ord) ==
    IF infos = << >> \/ acc.err THEN acc
    ELSE
      LET info == Head(infos)
          mode == NewFromOSFileMode(info)
      IN
      IF mode = "invalid" THEN [acc EXCEPT !.err = TRUE]
      ELSE IF info.kind = "dir" THEN
        LET sub == slurpDirIntoGitTree(info.children, ord) IN
        IF sub.err
          THEN [acc EXCEPT !.err = TRUE, !.writes = acc.writes \o sub.writes]
          ELSE SlurpFrom(Tail(infos),
                 [err |-> FALSE,
                  entries |-> Append(acc.entries, TreeEntry(info.name, mode, sub.hash)),
                  writes |-> acc.writes \o sub.writes], ord)
      ELSE
        SlurpFrom(Tail(infos),
          [err |-> FALSE,
           entries |-> Append(acc.entries,
                              TreeEntry(info.name, mode, BlobHash(info.bytes))),
           writes |-> Append(acc.writes, BlobHash(info.bytes))], ord)

\* slurpDirIntoGitTree when no read and no object write fails: the root
\* hash and the objects written to the store, in the order of writing.
slurpDirIntoGitTree(dir, ord) ==
    LET r == SlurpFrom(ReadDir(dir, ord),
                       [err |-> FALSE, entries |-> << >>, writes |-> << >>], ord)
    IN  IF r.err
          THEN [err |-> TRUE, hash |-> ZeroHash, writes |-> r.writes]
          ELSE [err |-> FALSE, hash |-> TreeHash(r.entries),
                writes |-> Append(r.writes, TreeHash(r.entries))]

\* ------------------------------------------------------------- state
VARIABLES
    objects,    \* ourRepo: hashes of the blob and tree objects in the store
    commits,    \* ourRepo: the commit objects in the store
    tagObjs,    \* ourRepo: the tag objects in the store
    refs,       \* ourRepo: refs/tags, tag name -> tag object
    tmpDirs,    \* the staging directories that exist under work.git
    now,        \* the wall clock
    pc,         \* per process: position in createStableTags
    blobs,      \* per process: the catalog argument, version -> blob hash
    todo,       \* per process: catalog entries the range loop has not visited
    v,          \* per process: the loop's current version
    deferred,   \* per process: directories with a pending deferred RemoveAll
    staged,     \* per process: content of the current staging directory
    treeHash,   \* per process: result of slurpDirIntoGitTree
    commit,     \* per process: the commit built for the current version
    result,     \* per process: what the last call returned
    runs,       \* per process: calls started so far
    log,        \* per process: history of the current call
    slurpIn,    \* the directory handed to slurpDirIntoGitTree on its own
    slurpOut,   \* the results of the successive calls on slurpIn
    listing,    \* the entries of docs/plugin-protocol
    ret,        \* what readProtoVersionBlobRefs returned for listing
    tfRepo,     \* work.git: the tags, the head and the commits fetched
    mpc,        \* main: position
    it,         \* main: the tag references ForEach has not visited
    newestVersion,          \* main: local variable
    latestStableCommit,     \* main: local variable
    latestUnstableCommit,   \* main: local variable
    stableProtoBlobRefs,    \* main: local variable
    unstableProtoBlobRefs,  \* main: local variable
    mainErr,    \* main: local variable err
    unstableErr,            \* what createUnstableBranches returned
    fatalAt     \* the line of the log.Fatalf that ended main, or 0

repoVars == << objects, commits, tagObjs, refs >>
procVars == << pc, blobs, todo, v, deferred, staged, treeHash, commit, result,
               runs >>
mainVars == << tfRepo, mpc, it, newestVersion, latestStableCommit,
               latestUnstableCommit, stableProtoBlobRefs, unstableProtoBlobRefs,
               mainErr, unstableErr, fatalAt >>
sideVars == << slurpIn, slurpOut, listing, ret, mainVars >>
vars == << repoVars, tmpDirs, now, procVars, log, sideVars >>

Procs == {1, 2}

\* gitObj.Signature{Name: "The Terraform Team", Email: ..., When: time.Now()}
Signature(when) ==
    [Name |-> "The Terraform Team", Email |-> "noreply@hashicorp.com", When |-> when]

\* &gitObj.Commit{TreeHash, Author, Committer, Message}; a commit's hash is
\* modelled by the commit itself.
Commit(tree, author, ver) ==
    [TreeHash |-> tree, Author |-> author, Committer |-> author,
     Message |-> CommitMessage(ver)]

NoCommit ==
    [TreeHash |-> ZeroHash, Author |-> Signature(0), Committer |-> Signature(0),
     Message |-> ""]

\* A tag object written without the Message option.
TagObjectNoMessage(name, target, tagger, message) ==
    [Name |-> name, Target |-> target, Tagger |-> tagger, Message |-> ""]

\* The tag object CreateTag writes for CreateTagOptions{Tagger, Message}.
TagObject(name, target, tagger, message) ==
    [Name |-> name, Target |-> target, Tagger |-> tagger, Message |-> message]

EmptyTree == TreeHash(<< >>)

\* A release that exists in the target repository before the first call.
OldCommit(ver) == Commit(EmptyTree, Signature(0), ver)
OldTag(ver) ==
    TagObject(TagName(ver), OldCommit(ver), Signature(0), CommitMessage(ver))

NoRefs == [n \in {} |-> OldTag(Unspecified)]

EmptyLog ==
    [refsAtStart |-> NoRefs, commitsAtStart |-> {}, tagObjsAtStart |-> {},
     newCommits |-> {},
     newTags |-> {}, createdDirs |-> {}, lookups |-> {}, attempted |-> {},
     failedStep |-> "", failedVer |-> Unspecified, prevBlobs |-> NoRefs, prevResult |-> ""]

\* The state of the target repository, the clock and the processes before
\* any call: any subset of the versions is already released.
InitRun ==
    /\ \E S \in SUBSET Versions :
         /\ refs = [n \in {TagName(x) : x \in S} |->
                      OldTag(CHOOSE x \in S : TagName(x) = n)]
         /\ tagObjs = {OldTag(x) : x \in S}
         /\ commits = {OldCommit(x) : x \in S}
         /\ objects = IF S = {} THEN {} ELSE {EmptyTree}
    /\ tmpDirs = {}
    /\ now = 0
    /\ pc = [p \in Procs |-> "idle"]
    /\ blobs = [p \in Procs |-> NoRefs]
    /\ todo = [p \in Procs |-> {}]
    /\ v = [p \in Procs |-> Unspecified]
    /\ deferred = [p \in Procs |-> {}]
    /\ staged = [p \in Procs |-> {}]
    /\ treeHash = [p \in Procs |-> ZeroHash]
    /\ commit = [p \in Procs |-> NoCommit]
    /\ result = [p \in Procs |-> ""]
    /\ runs = [p \in Procs |-> 0]
    /\ log = [p \in Procs |-> EmptyLog]

\* A work.git without tags or commits.
NoRepo == [tags |-> {}, head |-> "", commits |-> << >>]

\* main is not part of the run.
MainOff ==
    /\ tfRepo = NoRepo
    /\ mpc = "off"
    /\ it = {}
    /\ newestVersion = Unspecified
    /\ latestStableCommit = ""
    /\ latestUnstableCommit = ""
    /\ stableProtoBlobRefs = NoRefs
    /\ unstableProtoBlobRefs = NoRefs
    /\ mainErr = "nil"
    /\ unstableErr = ""
    /\ fatalAt = 0

InitSide ==
    /\ slurpIn = {}
    /\ slurpOut = << >>
    /\ listing = << >>
    /\ ret = [ok |-> FALSE, refs |-> NoRefs]
    /\ MainOff

Init == InitRun /\ InitSide

\* ------------------------------------------------- createStableTags
\* A return on which no deferred removal runs.
RemoveNothing(dirs, pending) == dirs

\* defer os.RemoveAll(tmpDir), run for every deferred directory on return.
RemoveAllDeferred(dirs, pending) == dirs \ pending

\* return: the deferred calls run, the locals of the call are gone and the
\* caller sees res.
Return(p, res) ==
    /\ pc' = [pc EXCEPT ![p] = "done"]
    /\ result' = [result EXCEPT ![p] = res]
    /\ tmpDirs' = RemoveAllDeferred(tmpDirs, deferred[p])
    /\ deferred' = [deferred EXCEPT ![p] = {}]
    /\ todo' = [todo EXCEPT ![p] = {}]
    /\ v' = [v EXCEPT ![p] = Unspecified]
    /\ staged' = [staged EXCEPT ![p] = {}]
    /\ treeHash' = [treeHash EXCEPT ![p] = ZeroHash]
    /\ commit' = [commit EXCEPT ![p] = NoCommit]
    /\ UNCHANGED << now, blobs, runs, sideVars >>

\* return fmt.Errorf(...) from the step named step, for the current version.
ReturnErr(p, step) ==
    /\ Return(p, "error")
    /\ log' = [log EXCEPT ![p].failedStep = step, ![p].failedVer = v[p]]

\* The step succeeded: on to the statement at next.
Continue(p, next) ==
    /\ pc' = [pc EXCEPT ![p] = next]
    /\ UNCHANGED << result, tmpDirs, deferred, todo, v, now, blobs, runs,
                    sideVars >>

\* A call of createStableTags(tfRepo, ourRepo, cat) begins; main calls it
\* once per process run, at most maxRuns times in the model.
Start(p, cats, maxRuns) ==
    /\ pc[p] \in {"idle", "done"}
    /\ runs[p] < maxRuns
    /\ \E cat \in cats :
         /\ blobs' = [blobs EXCEPT ![p] = cat]
         /\ todo' = [todo EXCEPT ![p] = DOMAIN cat]
    /\ pc' = [pc EXCEPT ![p] = "loop"]
    /\ runs' = [runs EXCEPT ![p] = runs[p] + 1]
    /\ result' = [result EXCEPT ![p] = ""]
    /\ log' = [log EXCEPT ![p] =
                 [EmptyLog EXCEPT !.refsAtStart = refs,
                                  !.commitsAtStart = commits,
                                  !.tagObjsAtStart = tagObjs,
                                  !.prevBlobs = blobs[p],
                                  !.prevResult = result[p]]]
    /\ UNCHANGED << repoVars, tmpDirs, now, v, deferred, staged, treeHash,
                    commit, sideVars >>

\* ourRepo.Tag(tagName): the errors the lookup can return.
TagLookup(name) ==
    (IF name \in DOMAIN refs THEN {"ok"} ELSE {"ErrTagNotFound"}) \cup {"error"}

\* A lookup that takes every failure for a missing tag.
LookupBranchLenient(err) == IF err = "ok" THEN "skip" ELSE "proceed"

\* A lookup that never skips a version.
LookupBranchNoSkip(err) == IF err = "error" THEN "abort" ELSE "proceed"

\* A lookup that skips the versions whose tag is missing.
LookupBranchInverted(err) ==
    CASE err = "ErrTagNotFound" -> "skip"
      [] err = "ok" -> "proceed"
      [] OTHER -> "abort"

\* if _, err := ourRepo.Tag(tagName); err == nil { continue }
\* else if err != git.ErrTagNotFound { return ... }
LookupBranch(err) ==
    CASE err = "ok" -> "skip"
      [] err = "ErrTagNotFound" -> "proceed"
      [] OTHER -> "abort"

\* for v, blobHash := range blobs: the next entry, in any order, and the
\* check for its tag.
LoopNext(p) ==
    /\ pc[p] = "loop"
    /\ \E ver \in todo[p] : \E err \in TagLookup(TagName(ver)) :
         LET seen == [log EXCEPT ![p].lookups = @ \cup {[ver |-> ver, err |-> err]}]
         IN
         CASE LookupBranch(err) = "skip" ->
                /\ todo' = [todo EXCEPT ![p] = @ \ {ver}]
                /\ log' = seen
                /\ UNCHANGED << pc, v, result, tmpDirs, deferred, staged, treeHash,
                                commit, now, blobs, runs, sideVars >>
           [] LookupBranch(err) = "proceed" ->
                /\ todo' = [todo EXCEPT ![p] = @ \ {ver}]
                /\ v' = [v EXCEPT ![p] = ver]
                /\ pc' = [pc EXCEPT ![p] = "blob"]
                /\ log' = [seen EXCEPT ![p].attempted = @ \cup {ver}]
                /\ UNCHANGED << result, tmpDirs, deferred, staged, treeHash, commit,
                                now, blobs, runs, sideVars >>
           [] OTHER ->
                /\ Return(p, "error")
                /\ log' = [seen EXCEPT ![p].failedStep = "lookup",
                                       ![p].failedVer = ver]
    /\ UNCHANGED repoVars

\* The range loop is over: return nil.
LoopExit(p) ==
    /\ pc[p] = "loop"
    /\ todo[p] = {}
    /\ Return(p, "nil")
    /\ UNCHANGED << repoVars, log >>

\* blob, err := tfRepo.BlobObject(blobHash)
BlobObject(p) ==
    /\ pc[p] = "blob"
    /\ \/ /\ Continue(p, "tmpdir")
          /\ UNCHANGED << staged, treeHash, commit, log >>
       \/ ReturnErr(p, "blob")
    /\ UNCHANGED repoVars

\* The name ioutil.TempDir gives the staging directory of process p.
TmpDirName(p, ver) == << p, "build-" \o VString(ver) >>

\* tmpDir, err := ioutil.TempDir(...); defer os.RemoveAll(tmpDir)
TempDir(p) ==
    /\ pc[p] = "tmpdir"
    /\ \/ /\ tmpDirs' = tmpDirs \cup {TmpDirName(p, v[p])}
          /\ deferred' = [deferred EXCEPT ![p] = @ \cup {TmpDirName(p, v[p])}]
          /\ staged' = [staged EXCEPT ![p] = {}]
          /\ log' = [log EXCEPT ![p].createdDirs = @ \cup {TmpDirName(p, v[p])}]
          /\ pc' = [pc EXCEPT ![p] = "mkdir"]
          /\ UNCHANGED << result, todo, v, treeHash, commit, now, blobs, runs,
                          sideVars >>
       \/ ReturnErr(p, "tmpdir")
    /\ UNCHANGED repoVars

\* The directory dir with node n added to its subdirectory sub.
AddTo(dir, sub, n) ==
    {IF x.name = sub /\ x.kind = "dir"
       THEN [x EXCEPT !.children = {y \in @ : y.name # n.name} \cup {n}]
       ELSE x : x \in dir}

\* err = os.Mkdir(packageDirPath, os.ModePerm)
Mkdir(p) ==
    /\ pc[p] = "mkdir"
    /\ \/ /\ staged' = [staged EXCEPT ![p] = @ \cup {DirNode(PackageDirName(v[p]), {})}]
          /\ Continue(p, "modinit")
          /\ UNCHANGED << treeHash, commit, log >>
       \/ ReturnErr(p, "mkdir")
    /\ UNCHANGED repoVars

\* exec.Command("go", "mod", "init", modulePath).Run()
GoModInit(p) ==
    /\ pc[p] = "modinit"
    /\ \/ /\ staged' = [staged EXCEPT ![p] =
                          @ \cup {FileNode("go.mod", "rw", ModulePath(v[p]))}]
          /\ Continue(p, "copy")
          /\ UNCHANGED << treeHash, commit, log >>
       \/ ReturnErr(p, "modinit")
    /\ UNCHANGED repoVars

\* blob.Reader(), os.Create(protoFileName), io.Copy(protoFile, protoReader):
\* the bytes of the blob (named by their hash) land in the package directory.
CopyProto(p) ==
    /\ pc[p] = "copy"
    /\ \/ /\ staged' = [staged EXCEPT ![p] =
                          AddTo(@, PackageDirName(v[p]),
                                FileNode(ProtoFileName(v[p]), "rw", blobs[p][v[p]]))]
          /\ Continue(p, "protoc")
          /\ UNCHANGED << treeHash, commit, log >>
       \/ ReturnErr(p, "copy")
    /\ UNCHANGED repoVars

\* exec.Command("protoc", ...).Run(): the schema compiler, which fails for
\* the blobs in BadBlobs and writes the bindings for the others.
Protoc(p) ==
    /\ pc[p] = "protoc"
    /\ IF blobs[p][v[p]] \in BadBlobs
         THEN ReturnErr(p, "protoc")
         ELSE /\ staged' = [staged EXCEPT ![p] =
                              AddTo(@, PackageDirName(v[p]),
                                    FileNode(PbFileName(v[p]), "rw",
                                             "pb:" \o blobs[p][v[p]]))]
              /\ Continue(p, "tidy")
              /\ UNCHANGED << treeHash, commit, log >>
    /\ UNCHANGED repoVars

\* exec.Command("go", "mod", "tidy").Run(): rewrites go.mod in place.
GoModTidy(p) ==
    /\ pc[p] = "tidy"
    /\ \/ /\ Continue(p, "slurp")
          /\ UNCHANGED << staged, treeHash, commit, log >>
       \/ ReturnErr(p, "tidy")
    /\ UNCHANGED repoVars

\* The first k elements of sequence s, as a set.
Written(s, k) == {s[i] : i \in 1..k}

\* A tree step that drops the error of slurpDirIntoGitTree and goes on with
\* the hash it returned.
SlurpIgnoreErr(p) ==
    /\ pc[p] = "slurp"
    /\ \E ord \in EnumOrders :
         LET r == slurpDirIntoGitTree(staged[p], ord) IN
         \E k \in 0..Len(r.writes) :
           /\ objects' = objects \cup Written(r.writes, k)
           /\ treeHash' = [treeHash EXCEPT ![p] =
                             IF k = Len(r.writes) /\ ~r.err THEN r.hash ELSE ZeroHash]
           /\ log' = IF k = Len(r.writes) /\ ~r.err THEN log
                     ELSE [log EXCEPT ![p].failedStep = "slurp", ![p].failedVer = v[p]]
           /\ pc' = [pc EXCEPT ![p] = "commit"]
           /\ UNCHANGED << result, tmpDirs, deferred, todo, v, now, blobs, runs,
                           sideVars, staged, commit >>
    /\ UNCHANGED << commits, tagObjs, refs >>

\* treeHash, err := slurpDirIntoGitTree(tmpDir, ourRepo): a read or an
\* object write may fail after any number k of object writes.
Slurp(p) ==
    /\ pc[p] = "slurp"
    /\ \E ord \in EnumOrders :
         LET r == slurpDirIntoGitTree(staged[p], ord) IN
         \E k \in 0..Len(r.writes) :
           /\ objects' = objects \cup Written(r.writes, k)
           /\ IF k = Len(r.writes) /\ ~r.err
                THEN /\ treeHash' = [treeHash EXCEPT ![p] = r.hash]
                     /\ Continue(p, "commit")
                     /\ UNCHANGED << staged, commit, log >>
                ELSE ReturnErr(p, "slurp")
    /\ UNCHANGED << commits, tagObjs, refs >>

\* The times time.Now() may return: the clock never runs backwards.
TimeNow == {now, IF now < MaxTime THEN now + 1 ELSE now}

\* A commit step that goes on to the tag although the commit was not written.
WriteCommitNoAbort(p) ==
    /\ pc[p] = "commit"
    /\ \E t \in TimeNow :
         LET c == Commit(treeHash[p], Signature(t), v[p]) IN
         /\ now' = t
         /\ commit' = [commit EXCEPT ![p] = c]
         /\ \/ /\ commits' = commits \cup {c}
               /\ log' = [log EXCEPT ![p].newCommits = @ \cup {[ver |-> v[p], commit |-> c]}]
            \/ /\ log' = [log EXCEPT ![p].failedStep = "commit", ![p].failedVer = v[p]]
               /\ UNCHANGED commits
         /\ pc' = [pc EXCEPT ![p] = "tag"]
         /\ UNCHANGED << result, tmpDirs, deferred, todo, v, staged, treeHash,
                         blobs, runs, sideVars >>
    /\ UNCHANGED << objects, tagObjs, refs >>

\* author := Signature{When: time.Now()}; commit := &Commit{...};
\* commit.Encode(obj); commitHash, err := ourRepo.Storer.SetEncodedObject(obj)
WriteCommit(p) ==
    /\ pc[p] = "commit"
    /\ \/ \E t \in TimeNow :
            LET c == Commit(treeHash[p], Signature(t), v[p]) IN
            /\ now' = t
            /\ commit' = [commit EXCEPT ![p] = c]
            /\ commits' = commits \cup {c}
            /\ log' = [log EXCEPT ![p].newCommits = @ \cup {[ver |-> v[p], commit |-> c]}]
            /\ pc' = [pc EXCEPT ![p] = "tag"]
            /\ UNCHANGED << result, tmpDirs, deferred, todo, v, staged, treeHash,
                            blobs, runs, sideVars >>
       \/ /\ ReturnErr(p, "commit")
          /\ UNCHANGED commits
    /\ UNCHANGED << objects, tagObjs, refs >>

\* ourRepo.CreateTag(tagName, commitHash, &CreateTagOptions{Tagger: &commit.Author,
\* Message: commit.Message}): ErrTagExists when the ref exists; else the tag
\* object is written and then the ref, and either write may fail.
CreateTag(p) ==
    /\ pc[p] = "tag"
    /\ LET name == TagName(v[p])
           t == TagObject(name, commit[p], commit[p].Author, commit[p].Message)
       IN
       \/ /\ name \notin DOMAIN refs
          /\ tagObjs' = tagObjs \cup {t}
          /\ refs' = [n \in DOMAIN refs \cup {name} |-> IF n = name THEN t ELSE refs[n]]
          /\ log' = [log EXCEPT ![p].newTags = @ \cup {[ver |-> v[p], tag |-> t]}]
          /\ Continue(p, "loop")
          /\ UNCHANGED << staged, treeHash, commit >>
       \/ /\ name \notin DOMAIN refs
          /\ tagObjs' \in {tagObjs, tagObjs \cup {t}}
          /\ ReturnErr(p, "tag")
          /\ UNCHANGED refs
       \/ /\ name \in DOMAIN refs
          /\ ReturnErr(p, "tag")
          /\ UNCHANGED << tagObjs, refs >>
    /\ UNCHANGED << objects, commits >>

\* One step of process p in a call whose catalog is drawn from cats.
Step(p, cats, maxRuns) ==
    \/ Start(p, cats, maxRuns)
    \/ LoopNext(p)
    \/ LoopExit(p)
    \/ BlobObject(p)
    \/ TempDir(p)
    \/ Mkdir(p)
    \/ GoModInit(p)
    \/ CopyProto(p)
    \/ Protoc(p)
    \/ GoModTidy(p)
    \/ Slurp(p)
    \/ WriteCommit(p)
    \/ CreateTag(p)

\* main runs createStableTags in one process, one call after the other.
Next == Step(1, Catalogs, MaxRuns)

Spec == Init /\ [][Next]_vars

\* Two processes run the generator against the same target repository at
\* the same time (nothing in main or createStableTags excludes it), each
\* with a catalog that holds version 5.1.0.
ConcCatalogs == {c \in Catalogs : Ver(5, 1, 0) \in DOMAIN c /\ \A x \in DOMAIN c : c[x] = "h1"}

NextConc == \E p \in Procs : Step(p, ConcCatalogs, ConcRuns)

SpecConc == Init /\ [][NextConc]_vars

\* exec.Command(...).Run() waits until the command exits: the commands are
\* built with exec.Command, without a context or a timer, so when go or
\* protoc never exits the call stays inside Run.
RunBlocks(p) ==
    /\ pc[p] \in {"modinit", "protoc", "tidy"}
    /\ pc' = [pc EXCEPT ![p] = "blocked"]
    /\ UNCHANGED << repoVars, tmpDirs, now, blobs, todo, v, deferred, staged,
                    treeHash, commit, result, runs, log, sideVars >>

\* createStableTags with commands that succeed, fail or never exit. The
\* process is scheduled as long as it has a step to take.
NextGen == Step(1, Catalogs, GenRuns) \/ RunBlocks(1)

\* Weak fairness of the process's steps. Slurp(1) is enabled exactly when
\* pc[1] = "slurp" and always leaves that position, so its weak fairness is
\* written as []<>(pc[1] # "slurp").
FairGen ==
    /\ WF_vars(pc[1] # "slurp" /\ NextGen)
    /\ []<>(pc[1] # "slurp")

SpecGen == Init /\ [][NextGen]_vars /\ FairGen

\* ----------------------------------------- slurpDirIntoGitTree alone
\* The staged directories slurpDirIntoGitTree is called on by itself: up
\* to EnumWidth entries among go.mod (either permission, two contents),
\* go.sum (a file or a pipe) and the package directory, which holds any of
\* the bindings and the schema (two contents, either permission).
SlurpPackages ==
    {DirNode("tfplugin5", pb \cup proto) :
       pb \in {{}, {FileNode("tfplugin5.pb.go", "rw", "a")}},
       proto \in {{}} \cup {{FileNode("tfplugin5.proto", "rw", b)} : b \in {"a", "b"}}
                      \cup {{FileNode("tfplugin5.proto", "rwx", "a")}}}

SlurpDirs ==
    {d \in {mod \cup sum \cup pkg :
              mod \in {{}} \cup {{FileNode("go.mod", pm, b)} :
                                   pm \in {"rw", "rwx"}, b \in {"a", "b"}},
              sum \in {{}, {FileNode("go.sum", "rw", "a")}, {PipeNode("go.sum")}},
              pkg \in {{}} \cup {{x} : x \in SlurpPackages}} :
       Cardinality(d) <= EnumWidth}

InitSlurp ==
    /\ InitRun
    /\ refs = NoRefs
    /\ slurpIn \in SlurpDirs
    /\ slurpOut = << >>
    /\ listing = << >>
    /\ ret = [ok |-> FALSE, refs |-> NoRefs]
    /\ MainOff

\* slurpDirIntoGitTree(slurpIn, ourRepo), every read and write succeeding,
\* with the directory entries enumerated in order ord; slurpOut keeps the
\* results of the last two calls.
SlurpCall ==
    /\ \E ord \in EnumOrders :
         LET r == slurpDirIntoGitTree(slurpIn, ord)
             out == [ord |-> ord, err |-> r.err, hash |-> r.hash]
         IN  /\ objects' = objects \cup Written(r.writes, Len(r.writes))
             /\ slurpOut' = IF Len(slurpOut) < 2 THEN Append(slurpOut, out)
                            ELSE << slurpOut[2], out >>
    /\ UNCHANGED << commits, tagObjs, refs, tmpDirs, now, procVars, log, slurpIn,
                    listing, ret, mainVars >>

NextSlurp == SlurpCall

SpecSlurp == InitSlurp /\ [][NextSlurp]_vars

\* ------------------------------------------ readProtoVersionBlobRefs
\* File names are sequences of characters.
TfPlugin == << "t", "f", "p", "l", "u", "g", "i", "n" >>
DotProto == << ".", "p", "r", "o", "t", "o" >>
DotZero == << ".", "0" >>

\* The characters of the model's names, in byte order.
CharOrder ==
    << ".", "0", "1", "2", "5", "A", "D", "E", "M", "R",
       "b", "d", "f", "g", "i", "l", "m", "n", "o", "p", "r", "t", "u", "x" >>

CharIndex(c) == CHOOSE i \in 1..Len(CharOrder) : CharOrder[i] = c

Digits == {"0", "1", "2", "5"}

DigitValue(c) == CASE c = "0" -> 0 [] c = "1" -> 1 [] c = "2" -> 2 [] c = "5" -> 5

RECURSIVE StrLess(_, _)
\* a < b for the names a and b, byte by byte.
StrLess(a, b) ==
    IF b = << >> THEN FALSE
    ELSE IF a = << >> THEN TRUE
    ELSE IF Head(a) = Head(b) THEN StrLess(Tail(a), Tail(b))
    ELSE CharIndex(Head(a)) < CharIndex(Head(b))

\* strings.HasPrefix(s, prefix)
HasPrefix(s, prefix) ==
    Len(s) >= Len(prefix) /\ SubSeq(s, 1, Len(prefix)) = prefix

\* strings.HasSuffix(s, suffix)
HasSuffix(s, suffix) ==
    Len(s) >= Len(suffix) /\ SubSeq(s, Len(s) - Len(suffix) + 1, Len(s)) = suffix

RECURSIVE SplitDots(_, _, _)
\* The segments of s between its dots, after the finished segments done and
\* the characters cur of the segment in progress.
SplitDots(s, done, cur) ==
    IF s = << >> THEN Append(done, cur)
    ELSE IF Head(s) = "." THEN SplitDots(Tail(s), Append(done, cur), << >>)
    ELSE SplitDots(Tail(s), done, Append(cur, Head(s)))

RECURSIVE ParseNat(_, _)
\* The number the digits s denote, after the digits of value acc.
ParseNat(s, acc) ==
    IF s = << >> THEN acc ELSE ParseNat(Tail(s), acc * 10 + DigitValue(Head(s)))

IsNumber(seg) == seg # << >> /\ \A i \in 1..Len(seg) : seg[i] \in Digits

\* versions.ParseVersion: "<major>.<minor>" (build 0) or
\* "<major>.<minor>.<build>"; anything else is an error.
ParseVersion(str) ==
    LET segs == SplitDots(str, << >>, << >>) IN
    IF Len(segs) \in {2, 3} /\ \A i \in 1..Len(segs) : IsNumber(segs[i])
      THEN [ok |-> TRUE,
            v |-> Ver(ParseNat(segs[1], 0), ParseNat(segs[2], 0),
                      IF Len(segs) = 3 THEN ParseNat(segs[3], 0) ELSE 0)]
      ELSE [ok |-> FALSE, v |-> Unspecified]

\* A match that wants only the suffix.
NameMatchesSuffixOnly(name) ==
    HasSuffix(name, DotProto) /\ Len(name) >= Len(TfPlugin) + Len(DotProto)

\* strings.HasPrefix(name, "tfplugin") && strings.HasSuffix(name, ".proto")
NameMatches(name) == HasPrefix(name, TfPlugin) /\ HasSuffix(name, DotProto)

\* name[len("tfplugin"):len(name)-len(".proto")] + ".0"
VersionStr(name) ==
    SubSeq(name, Len(TfPlugin) + 1, Len(name) - Len(DotProto)) \o DotZero

\* ret[version] = entry.Hash
MapSet(m, k, x) == [y \in DOMAIN m \cup {k} |-> IF y = k THEN x ELSE m[y]]

RECURSIVE ReadRefsFrom(_, _)
\* for _, entry := range protoTree.Entries { ... }, from the map m.
ReadRefsFrom(entries, m) ==
    IF entries = << >> THEN m
    ELSE LET entry == Head(entries) IN
         IF ~NameMatches(entry.Name) THEN ReadRefsFrom(Tail(entries), m)
         ELSE LET version == ParseVersion(VersionStr(entry.Name)) IN
              IF ~version.ok THEN ReadRefsFrom(Tail(entries), m)
              ELSE ReadRefsFrom(Tail(entries), MapSet(m, version.v, entry.Hash))

\* readProtoVersionBlobRefs for a commit whose docs/plugin-protocol tree
\* holds entries.
readProtoVersionBlobRefs(entries) == ReadRefsFrom(entries, NoRefs)

README == << "R", "E", "A", "D", "M", "E", ".", "m", "d" >>

\* The names the entries of docs/plugin-protocol are drawn from.
EntryNames ==
    { README,
      TfPlugin \o DotProto,
      TfPlugin \o << "5" >> \o DotProto,
      TfPlugin \o << "5", ".", "0" >> \o DotProto,
      TfPlugin \o << "5", ".", "1" >> \o DotProto,
      TfPlugin \o << "1", "2", ".", "5" >> \o DotProto,
      TfPlugin \o << "5", ".", "1", ".", "2" >> \o DotProto,
      TfPlugin \o << "x" >> \o DotProto,
      TfPlugin \o << "5", ".", "x" >> \o DotProto,
      TfPlugin \o << "5", "." >> \o DotProto,
      TfPlugin \o << "5", ".", "1" >> \o << ".", "m", "d" >>,
      << "p", "r", "o", "t", "o", "b", "u", "f", "5", ".", "2" >> \o DotProto }

\* Trees whose entries come in any order, each name once.
ListingsAnyOrder ==
    {l \in UNION {[1..n -> [Name : EntryNames, Hash : BlobHashes]] : n \in 0..MaxEntries} :
       \A i, j \in 1..Len(l) : i # j => l[i].Name # l[j].Name}

\* A git tree holds its entries in order of name, each name once.
Listings ==
    {l \in UNION {[1..n -> [Name : EntryNames, Hash : BlobHashes]] : n \in 0..MaxEntries} :
       \A i \in 1..Len(l) - 1 : StrLess(l[i].Name, l[i + 1].Name)}

InitDiscover ==
    /\ InitRun
    /\ refs = NoRefs
    /\ slurpIn = {}
    /\ slurpOut = << >>
    /\ listing \in Listings
    /\ ret = [ok |-> FALSE, refs |-> NoRefs]
    /\ MainOff

\* stableProtoBlobRefs, err := readProtoVersionBlobRefs(tfRepo, commit), the
\* commit, its tree and docs/plugin-protocol being there.
Discover ==
    /\ ~ret.ok
    /\ ret' = [ok |-> TRUE, refs |-> readProtoVersionBlobRefs(listing)]
    /\ UNCHANGED << repoVars, tmpDirs, now, procVars, log, slurpIn, slurpOut, listing,
                    mainVars >>

NextDiscover == Discover

SpecDiscover == InitDiscover /\ [][NextDiscover]_vars

\* -------------------------------------------------------------- main
\* Most tags in work.git.
MaxTags == 2

\* The short names of the tags fetched into work.git.
UpTagNames ==
    { << "v", "0", ".", "2", ".", "0" >>,
      << "v", "1", ".", "0", ".", "0" >>,
      << "0", ".", "5", ".", "0" >>,
      << "v", "x" >> }

\* The commits of work.git the tags and the head point at.
UpCommits == {"c1", "c2"}

\* A tag reference: of an annotated tag, whose tag object names its Target,
\* or of a lightweight tag, which has no tag object.
UpTagRefs ==
    {t \in [Name : UpTagNames, Annotated : BOOLEAN, Target : UpCommits] :
       ~t.Annotated => t.Target = "c1"}

\* What work.git holds for a commit hash: state says whether the commit, its
\* tree and docs/plugin-protocol are there, entries lists that directory.
Snapshot(state, entries) == [state |-> state, entries |-> entries]

Entry(name, hash) == [Name |-> name, Hash |-> hash]

OlderListing ==
    << Entry(README, "h2"),
       Entry(TfPlugin \o << "5", ".", "1" >> \o DotProto, "h1") >>

NewerListing ==
    << Entry(TfPlugin \o << "5", ".", "1" >> \o DotProto, "h1"),
       Entry(TfPlugin \o << "5", ".", "2" >> \o DotProto, "h2") >>

\* The states of work.git after the fetch: at most MaxTags tags, each name
\* once; commit c1 is whole, commit c2 is whole or lacks a part.
UpRepos ==
    {[tags |-> T, head |-> h,
      commits |-> [c \in UpCommits |-> IF c = "c1" THEN Snapshot("ok", OlderListing) ELSE s2]] :
       T \in {T \in SUBSET UpTagRefs :
                /\ Cardinality(T) <= MaxTags
                /\ \A a, b \in T : a.Name = b.Name => a = b},
       h \in UpCommits,
       s2 \in {Snapshot("ok", NewerListing), Snapshot("nocommit", << >>),
               Snapshot("notree", << >>), Snapshot("nodir", << >>)}}

\* A discovery that takes a missing docs/plugin-protocol for an empty one.
readProtoVersionBlobRefsLenient(repo, commitHash) ==
    LET snap == repo.commits[commitHash] IN
    IF snap.state \in {"nocommit", "notree"}
      THEN [err |-> snap.state, refs |-> NoRefs]
      ELSE [err |-> "nil", refs |-> readProtoVersionBlobRefs(snap.entries)]

\* readProtoVersionBlobRefs(repo, commitHash): repo.CommitObject,
\* commit.Tree and rootTree.Tree("docs/plugin-protocol") each return
\* nil, fmt.Errorf(...) on failure; else the catalog of the entries.
readProtoVersionBlobRefsOf(repo, commitHash) ==
    LET snap == repo.commits[commitHash] IN
    IF snap.state # "ok"
      THEN [err |-> snap.state, refs |-> NoRefs]
      ELSE [err |-> "nil", refs |-> readProtoVersionBlobRefs(snap.entries)]

\* if len(name) > 0 && name[0] == 'v' { name = name[1:] }
StripV(name) == IF Len(name) > 0 /\ name[1] = "v" THEN Tail(name) ELSE name

\* Version.GreaterThan: the order on (major, minor, build).
GreaterThan(a, b) ==
    \/ a.Major > b.Major
    \/ a.Major = b.Major /\ a.Minor > b.Minor
    \/ a.Major = b.Major /\ a.Minor = b.Minor /\ a.Patch > b.Patch

\* A callback that keeps the version of the last tag that parses.
TagCallbackLast(name, newest) ==
    LET w == ParseVersion(StripV(name)) IN
    [err |-> "nil", newest |-> IF w.ok THEN w.v ELSE newest]

\* The function handed to it.ForEach: what it returns and newestVersion
\* after it, for a tag of short name name.
TagCallback(name, newest) ==
    LET w == ParseVersion(StripV(name)) IN
    IF ~w.ok THEN [err |-> "nil", newest |-> newest]
    ELSE [err |-> "nil",
          newest |-> IF GreaterThan(w.v, newest) THEN w.v ELSE newest]

RECURSIVE Join(_)
\* The string of the characters chars.
Join(chars) == IF chars = << >> THEN "" ELSE Head(chars) \o Join(Tail(chars))

\* The target repository as a value.
OurRepo == [objects |-> objects, commits |-> commits, tagObjs |-> tagObjs, refs |-> refs]

\* An unstable track that writes a commit for every catalog version.
createUnstableBranchesWriting(tf, ourRepo, cat) ==
    [repo |-> [ourRepo EXCEPT !.commits =
                 @ \cup {Commit(EmptyTree, Signature(0), ver) : ver \in DOMAIN cat}],
     err |-> "nil"]

\* func createUnstableBranches(tfRepo, ourRepo, blobs) error { return nil }
createUnstableBranches(tf, ourRepo, cat) == [repo |-> ourRepo, err |-> "nil"]

\* What main leaves alone outside its own variables.
runVars == << repoVars, tmpDirs, now, procVars, log, slurpIn, slurpOut, listing, ret >>

\* log.Fatalf at line: the process exits.
Fatalf(line) == mpc' = "fatal" /\ fatalAt' = line

\* it, err := tfRepo.Tags(), with newestVersion := versions.Unspecified.
TagsOpen ==
    /\ mpc = "begin"
    /\ \/ /\ it' = tfRepo.tags
          /\ newestVersion' = Unspecified
          /\ mainErr' = "nil"
          /\ mpc' = "foreach"
          /\ UNCHANGED fatalAt
       \/ /\ Fatalf(64)
          /\ mainErr' = "error"
          /\ UNCHANGED << it, newestVersion >>
    /\ UNCHANGED << tfRepo, latestStableCommit, latestUnstableCommit,
                    stableProtoBlobRefs, unstableProtoBlobRefs, unstableErr, runVars >>

\* err = it.ForEach(func(ref) error {...}): the callback runs on the next
\* tag, in whatever order the iterator yields them; an error it returns
\* ends main; after the last tag main goes on.
TagsForEach ==
    /\ mpc = "foreach"
    /\ \/ \E ref \in it :
            LET r == TagCallback(ref.Name, newestVersion) IN
            /\ it' = it \ {ref}
            /\ mainErr' = r.err
            /\ IF r.err # "nil"
                 THEN Fatalf(83) /\ UNCHANGED newestVersion
                 ELSE newestVersion' = r.newest /\ UNCHANGED << mpc, fatalAt >>
       \/ /\ it = {}
          /\ mpc' = "resolve"
          /\ UNCHANGED << it, newestVersion, mainErr, fatalAt >>
    /\ UNCHANGED << tfRepo, latestStableCommit, latestUnstableCommit,
                    stableProtoBlobRefs, unstableProtoBlobRefs, unstableErr, runVars >>

\* newestTagRef, err := tfRepo.Tag("v" + newestVersion.String());
\* newestTag, err := tfRepo.TagObject(newestTagRef.Hash());
\* latestStableCommit := newestTag.Target
ResolveTag ==
    /\ mpc = "resolve"
    /\ LET found == {ref \in tfRepo.tags : Join(ref.Name) = TagName(newestVersion)} IN
       \/ /\ found = {}
          /\ Fatalf(89)
          /\ mainErr' = "ErrTagNotFound"
          /\ UNCHANGED latestStableCommit
       \/ \E ref \in found :
            IF ref.Annotated
              THEN /\ latestStableCommit' = ref.Target
                   /\ mainErr' = "nil"
                   /\ mpc' = "head"
                   /\ UNCHANGED fatalAt
              ELSE /\ Fatalf(93)
                   /\ mainErr' = "ErrObjectNotFound"
                   /\ UNCHANGED latestStableCommit
    /\ UNCHANGED << tfRepo, it, newestVersion, latestUnstableCommit,
                    stableProtoBlobRefs, unstableProtoBlobRefs, unstableErr, runVars >>

\* latestCommitRef, err := tfRepo.Head(); latestUnstableCommit := its hash
RepoHead ==
    /\ mpc = "head"
    /\ \/ /\ latestUnstableCommit' = tfRepo.head
          /\ mainErr' = "nil"
          /\ mpc' = "stable"
          /\ UNCHANGED fatalAt
       \/ /\ Fatalf(100)
          /\ mainErr' = "error"
          /\ UNCHANGED latestUnstableCommit
    /\ UNCHANGED << tfRepo, it, newestVersion, latestStableCommit,
                    stableProtoBlobRefs, unstableProtoBlobRefs, unstableErr, runVars >>

\* stableProtoBlobRefs, err := readProtoVersionBlobRefs(tfRepo, latestStableCommit)
ReadStable ==
    /\ mpc = "stable"
    /\ LET r == readProtoVersionBlobRefsOf(tfRepo, latestStableCommit) IN
       /\ stableProtoBlobRefs' = r.refs
       /\ mainErr' = r.err
       /\ IF r.err # "nil" THEN Fatalf(107)
          ELSE mpc' = "unstable" /\ UNCHANGED fatalAt
    /\ UNCHANGED << tfRepo, it, newestVersion, latestStableCommit,
                    latestUnstableCommit, unstableProtoBlobRefs, unstableErr, runVars >>

\* unstableProtoBlobRefs, err := readProtoVersionBlobRefs(tfRepo, latestUnstableCommit)
ReadUnstable ==
    /\ mpc = "unstable"
    /\ LET r == readProtoVersionBlobRefsOf(tfRepo, latestUnstableCommit) IN
       /\ unstableProtoBlobRefs' = r.refs
       /\ mainErr' = r.err
       /\ IF r.err # "nil" THEN Fatalf(112)
          ELSE mpc' = "create" /\ UNCHANGED fatalAt
    /\ UNCHANGED << tfRepo, it, newestVersion, latestStableCommit,
                    latestUnstableCommit, stableProtoBlobRefs, unstableErr, runVars >>

\* err = createStableTags(tfRepo, ourRepo, stableProtoBlobRefs): the steps
\* of the one call main makes.
CallStable ==
    /\ mpc = "create"
    /\ Step(1, {stableProtoBlobRefs}, 1)

\* createStableTags has returned: if err != nil { log.Fatalf(...) }
StableReturned ==
    /\ mpc = "create"
    /\ pc[1] = "done"
    /\ mainErr' = result[1]
    /\ IF result[1] # "nil" THEN Fatalf(117)
       ELSE mpc' = "branches" /\ UNCHANGED fatalAt
    /\ UNCHANGED << tfRepo, it, newestVersion, latestStableCommit,
                    latestUnstableCommit, stableProtoBlobRefs,
                    unstableProtoBlobRefs, unstableErr, runVars >>

\* createUnstableBranches(tfRepo, ourRepo, unstableProtoBlobRefs), its
\* result dropped; if err != nil { log.Fatalf(...) } on the err of line 115.
CallUnstable ==
    /\ mpc = "branches"
    /\ LET r == createUnstableBranches(tfRepo, OurRepo, unstableProtoBlobRefs) IN
       /\ objects' = r.repo.objects
       /\ commits' = r.repo.commits
       /\ tagObjs' = r.repo.tagObjs
       /\ refs' = r.repo.refs
       /\ unstableErr' = r.err
    /\ IF mainErr # "nil" THEN Fatalf(121)
       ELSE mpc' = "exit" /\ UNCHANGED fatalAt
    /\ UNCHANGED << tfRepo, it, newestVersion, latestStableCommit,
                    latestUnstableCommit, stableProtoBlobRefs,
                    unstableProtoBlobRefs, mainErr, tmpDirs, now, procVars, log,
                    slurpIn, slurpOut, listing, ret >>

\* main from line 61 on, work.git fetched and the target repository open.
InitMain ==
    /\ InitRun
    /\ slurpIn = {}
    /\ slurpOut = << >>
    /\ listing = << >>
    /\ ret = [ok |-> FALSE, refs |-> NoRefs]
    /\ tfRepo \in UpRepos
    /\ mpc = "begin"
    /\ it = {}
    /\ newestVersion = Unspecified
    /\ latestStableCommit = ""
    /\ latestUnstableCommit = ""
    /\ stableProtoBlobRefs = NoRefs
    /\ unstableProtoBlobRefs = NoRefs
    /\ mainErr = "nil"
    /\ unstableErr = ""
    /\ fatalAt = 0

NextMain ==
    \/ TagsOpen
    \/ TagsForEach
    \/ ResolveTag
    \/ RepoHead
    \/ ReadStable
    \/ ReadUnstable
    \/ CallStable
    \/ StableReturned
    \/ CallUnstable

SpecMain == InitMain /\ [][NextMain]_vars

\* ------------------------------------------------------- properties
\* The records of log[p] about version ver.
About(set, ver) == {e \in set : e.ver = ver}

\* Process p has started a call with the catalog of its previous call, and
\* that previous call returned nil.
SecondRun(p) ==
    /\ runs[p] >= 2
    /\ pc[p] # "idle"
    /\ log[p].prevResult = "nil"
    /\ log[p].prevBlobs = blobs[p]

\* C1: idempotency. Once a call has returned nil, a further call with the
\* same catalog writes no commit and no tag: from its start to its return
\* the commits, tag objects and tag refs of the target repository are the
\* ones it found.
C1_Idempotent ==
    \A p \in Procs :
      SecondRun(p) =>
        /\ commits = log[p].commitsAtStart
        /\ tagObjs = log[p].tagObjsAtStart
        /\ refs = log[p].refsAtStart
        /\ log[p].newCommits = {}
        /\ log[p].newTags = {}

\* A second call with the same catalog has returned, after a first call
\* that created a release.
C1_Witness ==
    /\ SecondRun(1)
    /\ pc[1] = "done"
    /\ result[1] = "nil"
    /\ \E ver \in DOMAIN blobs[1] : refs[TagName(ver)] # OldTag(ver)

\* C2: skip-if-exists. A call that returns nil has written exactly one
\* commit and one tag named "v"+version, pointing at that commit, for each
\* catalog version without a tag at the start, and nothing for the catalog
\* versions whose tag existed; it wrote for no other version.
C2_SkipIfExists ==
    \A p \in Procs :
      (pc[p] = "done" /\ result[p] = "nil") =>
        /\ \A ver \in DOMAIN blobs[p] :
             LET nc == About(log[p].newCommits, ver)
                 nt == About(log[p].newTags, ver)
                 name == TagName(ver)
             IN  IF name \in DOMAIN log[p].refsAtStart
                   THEN /\ nc = {}
                        /\ nt = {}
                        /\ refs[name] = log[p].refsAtStart[name]
                   ELSE /\ Cardinality(nc) = 1
                        /\ Cardinality(nt) = 1
                        /\ name \in DOMAIN refs
                        /\ \A c \in nc : \A t \in nt :
                             /\ c.commit \in commits
                             /\ refs[name] = t.tag
                             /\ t.tag.Name = name
                             /\ t.tag.Target = c.commit
        /\ \A e \in log[p].newCommits \cup log[p].newTags : e.ver \in DOMAIN blobs[p]
        /\ commits = log[p].commitsAtStart \cup {e.commit : e \in log[p].newCommits}
        /\ DOMAIN refs = DOMAIN log[p].refsAtStart \cup {TagName(ver) : ver \in DOMAIN blobs[p]}

\* A call over two versions, one of them already tagged, has returned nil
\* with one new release.
C2_Witness ==
    /\ pc[1] = "done"
    /\ result[1] = "nil"
    /\ Cardinality(DOMAIN blobs[1]) = 2
    /\ Cardinality(log[1].newTags) = 1
    /\ Cardinality(log[1].newCommits) = 1
    /\ \E ver \in DOMAIN blobs[1] : TagName(ver) \in DOMAIN log[1].refsAtStart

\* C3: partial-failure isolation. When a call ends because protoc failed
\* for one version, every catalog version that had no tag and whose schema
\* protoc can compile has a tag.
C3_PartialFailureIsolation ==
    \A p \in Procs :
      (pc[p] = "done" /\ log[p].failedStep = "protoc") =>
        \A w \in DOMAIN blobs[p] :
          (blobs[p][w] \notin BadBlobs /\ TagName(w) \notin DOMAIN log[p].refsAtStart)
            => TagName(w) \in DOMAIN refs

\* C4: write order tree -> commit -> tag. Every tag object and every tag
\* ref of the target repository points at a commit that is in the object
\* store and whose tree is in the object store, whichever write failed.
C4_TagTargetsPresent ==
    \A t \in tagObjs \cup {refs[n] : n \in DOMAIN refs} :
      /\ t.Target \in commits
      /\ t.Target.TreeHash \in objects

\* A call wrote a tag and then failed in a later write.
C4_Witness ==
    /\ pc[1] = "done"
    /\ log[1].newTags # {}
    /\ log[1].failedStep \in {"slurp", "commit", "tag"}

\* Process p is inside a call of createStableTags.
Running(p) == pc[p] \notin {"idle", "done"}

\* C5: no duplicate release under concurrency. While two calls run at the
\* same time, the commits they have written for one version are the same
\* commit, and so are the tags.
C5_NoDuplicateRelease ==
    \A p, q \in Procs :
      (p # q /\ Running(p) /\ Running(q)) =>
        /\ \A c \in log[p].newCommits : \A d \in log[q].newCommits :
             c.ver = d.ver => c.commit = d.commit
        /\ \A c \in log[p].newTags : \A d \in log[q].newTags :
             c.ver = d.ver => c.tag = d.tag

\* C6: a failed tag lookup is not "not released". A lookup that fails with
\* another error than tag-not-found ends the call with an error, with no
\* staging directory, commit or tag for that version; a version is
\* synthesized exactly when its lookup said tag-not-found and passed over
\* exactly when its lookup succeeded.
C6_LookupFailureAborts ==
    \A p \in Procs : \A l \in log[p].lookups :
      /\ l.err = "error" =>
           /\ pc[p] = "done"
           /\ result[p] = "error"
           /\ TmpDirName(p, l.ver) \notin log[p].createdDirs
           /\ About(log[p].newCommits, l.ver) = {}
           /\ About(log[p].newTags, l.ver) = {}
      /\ l.ver \in log[p].attempted <=> l.err = "ErrTagNotFound"
      /\ (l.ver \notin log[p].attempted
            /\ ~(log[p].failedStep = "lookup" /\ log[p].failedVer = l.ver))
           <=> l.err = "ok"

\* A call released one version and then ended on a failed lookup.
C6_Witness ==
    /\ pc[1] = "done"
    /\ log[1].failedStep = "lookup"
    /\ log[1].newTags # {}
    /\ \E l \in log[1].lookups : l.err = "error"

\* The steps of one version's synthesis that precede the writing of its tag.
SynthesisSteps ==
    {"blob", "tmpdir", "mkdir", "modinit", "copy", "protoc", "tidy", "slurp", "commit"}

\* C8: no release on failure. When a call has ended because a step of a
\* version's synthesis failed, that version has no tag, the tags found at
\* the start are unchanged and so are the tags the call had created.
C8_NoReleaseOnFailure ==
    \A p \in Procs :
      (pc[p] = "done" /\ log[p].failedStep \in SynthesisSteps) =>
        /\ TagName(log[p].failedVer) \notin DOMAIN refs
        /\ \A n \in DOMAIN log[p].refsAtStart :
             n \in DOMAIN refs /\ refs[n] = log[p].refsAtStart[n]
        /\ \A e \in log[p].newTags :
             TagName(e.ver) \in DOMAIN refs /\ refs[TagName(e.ver)] = e.tag

\* A call released one version and then failed while building the tree of
\* another, with a tag in place from before the call.
C8_Witness ==
    /\ pc[1] = "done"
    /\ log[1].failedStep \in {"slurp", "commit"}
    /\ log[1].newTags # {}

\* C9: staging cleanup. When a call has returned, none of the staging
\* directories it created exists and no removal is pending.
C9_StagingCleanup ==
    \A p \in Procs :
      pc[p] = "done" => (log[p].createdDirs \cap tmpDirs = {} /\ deferred[p] = {})

\* A call created two staging directories and returned an error.
C9_Witness ==
    /\ pc[1] = "done"
    /\ result[1] = "error"
    /\ Cardinality(log[1].createdDirs) = 2

\* The entries of a tree are in increasing order of name.
NameSorted(entries) ==
    \A i, j \in 1..Len(entries) : i < j => NameLess(entries[i].Name, entries[j].Name)

\* C7: deterministic addressing. Two calls of slurpDirIntoGitTree on the
\* same staged directory return the same root hash (or both fail), however
\* the directory entries were enumerated, and every tree written to the
\* store has its entries in order of name.
C7_DeterministicAddressing ==
    /\ \A i, j \in 1..Len(slurpOut) :
         slurpOut[i].hash = slurpOut[j].hash /\ slurpOut[i].err = slurpOut[j].err
    /\ \A o \in objects : o.kind = "tree" => NameSorted(o.tree)

\* Two calls with different enumeration orders have returned a hash for a
\* directory that holds a file and a subdirectory of two files.
C7_Witness ==
    /\ Len(slurpOut) = 2
    /\ slurpOut[1].ord # slurpOut[2].ord
    /\ ~slurpOut[2].err
    /\ Cardinality(slurpIn) = 2
    /\ \E x \in slurpIn : x.kind = "dir" /\ Cardinality(x.children) = 2

\* The part of name between "tfplugin" and ".proto".
Middle(name) == SubSeq(name, Len(TfPlugin) + 1, Len(name) - Len(DotProto))

\* The version entry e of the listing stands for.
VersionOf(e) == ParseVersion(Middle(e.Name) \o DotZero)

\* Name has the form tfplugin<digits>.proto.
DigitsForm(name) ==
    HasPrefix(name, TfPlugin) /\ HasSuffix(name, DotProto) /\ IsNumber(Middle(name))

\* Name starts with "tfplugin", ends with ".proto" and what is between the
\* two, followed by ".0", parses as a Version.
VersionForm(name) ==
    /\ HasPrefix(name, TfPlugin)
    /\ HasSuffix(name, DotProto)
    /\ ParseVersion(Middle(name) \o DotZero).ok

\* The catalog has an entry exactly for the listing's names that satisfy
\* form, each mapped to the hash of the last listing entry of its version.
CatalogOf(form(_)) ==
    LET idx == {i \in 1..Len(listing) : form(listing[i].Name)} IN
    /\ DOMAIN ret.refs = {VersionOf(listing[i]).v : i \in idx}
    /\ \A i \in idx :
         (\A j \in idx : j > i => VersionOf(listing[j]).v # VersionOf(listing[i]).v)
           => ret.refs[VersionOf(listing[i]).v] = listing[i].Hash

\* C10 as stated: the catalog has an entry exactly for the names of the
\* form tfplugin<digits>.proto whose digits followed by ".0" parse, and
\* none for any other name.
C10_DigitsOnly == ret.ok => CatalogOf(DigitsForm)

\* C10 as amended: the catalog has an entry exactly for the names that
\* start with "tfplugin", end with ".proto" and whose middle part followed
\* by ".0" parses as a Version (a middle part may hold dots: tfplugin5.1.proto
\* yields 5.1.0), mapped to the hash of the last such entry of the version;
\* every other name yields no entry and no error.
C10_CatalogDiscovery == ret.ok => CatalogOf(VersionForm)

\* tfplugin5.proto, README.md and tfplugin.proto have been read, giving the
\* single entry 5.0.0.
C10_Witness ==
    /\ ret.ok
    /\ {listing[i].Name : i \in 1..Len(listing)} =
         {TfPlugin \o << "5" >> \o DotProto, README, TfPlugin \o DotProto}
    /\ DOMAIN ret.refs = {Ver(5, 0, 0)}

\* "v<major>.<minor>" for the versions of the model, digit by digit.
MajorMinor(ver) ==
    "v" \o (CASE ver.Major = 5 -> "5" [] OTHER -> "?")
        \o "." \o (CASE ver.Minor = 1 -> "1" [] ver.Minor = 2 -> "2" [] OTHER -> "?")

\* Every commit a call has written carries the message text followed by
\* "v<major>.<minor>" of its version.
MessagesAre(text) ==
    \A p \in Procs : \A e \in log[p].newCommits :
      e.commit.Message = text \o MajorMinor(e.ver) /\ e.commit \in commits

\* C11 as stated: every commit createStableTags writes for a version with
\* major M and minor N carries exactly the message
\* "Auto-generated module for protocol vM.N".
C11_SpecMessage == MessagesAre("Auto-generated module for protocol ")

\* C11 as amended: every commit createStableTags writes for a version with
\* major M and minor N carries exactly the message
\* "Auto-generated Go module for Terraform plugin protocol vM.N".
C11_CommitMessage ==
    MessagesAre("Auto-generated Go module for Terraform plugin protocol ")

\* A call has written the commits of 5.1.0 and of 5.2.0.
C11_Witness ==
    {e.ver : e \in log[1].newCommits} = {Ver(5, 1, 0), Ver(5, 2, 0)}

\* C12: bounded generation. When a command of the generation step never
\* exits, the call of createStableTags still ends, and with a timeout
\* error, which is not the error of a command that failed.
C12_BoundedGeneration ==
    (pc[1] = "blocked") ~> (pc[1] = "done" /\ result[1] = "timeout")

\* C13: the unstable track is a no-op. The step of main that calls
\* createUnstableBranches leaves the objects, commits, tag objects and refs
\* of the target repository as they were, the call returns nil, and main
\* goes on to its end instead of aborting.
C13_UnstableNoOp ==
    [][mpc = "branches" =>
         (repoVars' = repoVars /\ unstableErr' = "nil" /\ mpc' = "exit" /\ fatalAt' = 0)]_vars

\* main has ended after createStableTags released a version and
\* createUnstableBranches was called with a catalog of two versions.
C13_Witness ==
    /\ mpc = "exit"
    /\ unstableErr = "nil"
    /\ Cardinality(DOMAIN unstableProtoBlobRefs) = 2
    /\ log[1].newTags # {}

\* The commits of set whose message names version ver.
CommitsFor(set, ver) == {c \in set : c.Message = CommitMessage(ver)}

\* C14: release immutability across runs. In every step of every call,
\* whatever its catalog, a version whose tag exists keeps that tag with the
\* same target commit, and no commit is added for that version.
C14_ReleaseImmutable ==
    [][\A ver \in Versions :
         TagName(ver) \in DOMAIN refs =>
           /\ TagName(ver) \in DOMAIN refs'
           /\ refs'[TagName(ver)] = refs[TagName(ver)]
           /\ CommitsFor(commits', ver) = CommitsFor(commits, ver)]_vars

\* A first call released a version; a second call, whose catalog maps that
\* version to other content, has returned nil.
C14_Witness ==
    /\ runs[1] = 2
    /\ pc[1] = "done"
    /\ result[1] = "nil"
    /\ \E ver \in DOMAIN blobs[1] \cap DOMAIN log[1].prevBlobs :
         /\ blobs[1][ver] # log[1].prevBlobs[ver]
         /\ TagName(ver) \in DOMAIN log[1].refsAtStart
         /\ refs[TagName(ver)] # OldTag(ver)

\* The tree of the staged directory of a major-5 version whose schema is
\* the blob h: go.mod, and tfplugin5 with the bindings and the schema.
ReleaseTree(h) ==
    TreeHash(<< TreeEntry("go.mod", "100644",
                  BlobHash("github.com/apparentlymart/terraform-plugin-proto-go/v5")),
                TreeEntry("tfplugin5", "40000",
                  TreeHash(<< TreeEntry("tfplugin5.pb.go", "100644", BlobHash("pb:" \o h)),
                              TreeEntry("tfplugin5.proto", "100644", BlobHash(h)) >>)) >>)

\* C15: the tag matches its commit. Every tag a call has created for a
\* version is named "v<major>.<minor>.<build>" of that version and points at
\* the commit the same call wrote for that version, whose tree is the tree
\* of that version's staged directory, with that commit's author as tagger
\* and that commit's message.
C15_TagMatchesCommit ==
    \A p \in Procs : \A e \in log[p].newTags :
      /\ e.tag.Name = MajorMinor(e.ver) \o ".0"
      /\ e.tag \in tagObjs
      /\ \E c \in About(log[p].newCommits, e.ver) :
           /\ e.tag.Target = c.commit
           /\ e.tag.Tagger = c.commit.Author
           /\ e.tag.Message = c.commit.Message
           /\ c.commit.TreeHash = ReleaseTree(blobs[p][e.ver])
           /\ c.commit \in commits

\* A second call has created the tag of a version at a later time than
\* the first call created another tag.
C15_Witness ==
    /\ runs[1] = 2
    /\ log[1].newTags # {}
    /\ \E e \in log[1].newTags :
         /\ e.tag.Tagger.When = 1
         /\ \E n \in DOMAIN refs : refs[n].Tagger.When = 0 /\ refs[n] # OldTag(Ver(5, 1, 0))
                                   /\ refs[n] # OldTag(Ver(5, 2, 0))

\* The entries of the listing, as a set.
ListingSet == {listing[i] : i \in 1..Len(listing)}

Readable(c) == c \in DOMAIN tfRepo.commits /\ tfRepo.commits[c].state = "ok"

\* The target repository holds what it held before main started, and
\* createStableTags has not been called.
NothingWritten ==
    /\ runs[1] = 0
    /\ pc[1] = "idle"
    /\ log[1] = EmptyLog
    /\ tmpDirs = {}
    /\ objects \subseteq {EmptyTree}
    /\ commits = {OldCommit(x) : x \in {y \in Versions : TagName(y) \in DOMAIN refs}}
    /\ tagObjs = {OldTag(x) : x \in {y \in Versions : TagName(y) \in DOMAIN refs}}
    /\ \A x \in Versions : TagName(x) \in DOMAIN refs => refs[TagName(x)] = OldTag(x)

\* C17: discovery failure writes nothing. When the commit, its tree or
\* docs/plugin-protocol is missing for the latest stable or the latest
\* unstable commit, readProtoVersionBlobRefs returns an error and no
\* catalog, main ends at the Fatalf after that call, createStableTags is
\* never started and the target repository holds what it held before.
C17_DiscoveryFailureWritesNothing ==
    /\ (latestStableCommit # "" /\ ~Readable(latestStableCommit)) =>
         /\ NothingWritten
         /\ stableProtoBlobRefs = NoRefs
         /\ mpc \in {"head", "stable", "fatal"}
         /\ mpc = "fatal" => (fatalAt \in {100, 107} /\ mainErr # "nil")
    /\ (latestUnstableCommit # "" /\ ~Readable(latestUnstableCommit)) =>
         /\ NothingWritten
         /\ unstableProtoBlobRefs = NoRefs
         /\ mpc \in {"stable", "unstable", "fatal"}
         /\ mpc = "fatal" => (fatalAt \in {107, 112} /\ mainErr # "nil")
    /\ fatalAt \in {107, 112} => NothingWritten
    /\ fatalAt = 107 => ~Readable(latestStableCommit)
    /\ fatalAt = 112 => ~Readable(latestUnstableCommit)

\* The stable catalog was read; docs/plugin-protocol is missing at the
\* head of work.git, and main has ended at the Fatalf of line 112.
C17_Witness ==
    /\ mpc = "fatal"
    /\ fatalAt = 112
    /\ stableProtoBlobRefs # NoRefs
    /\ tfRepo.commits[latestUnstableCommit].state = "nodir"
    /\ refs # NoRefs

\* The versions of the tags of work.git whose name, one leading "v"
\* taken off, parses.
ParsedTags ==
    {ParseVersion(StripV(ref.Name)).v :
       ref \in {r \in tfRepo.tags : ParseVersion(StripV(r.Name)).ok}}

\* The catalog of docs/plugin-protocol at commit c of work.git.
CatalogAt(c) ==
    IF c = "c1" THEN Ver(5, 1, 0) :> "h1"
    ELSE Ver(5, 1, 0) :> "h1" @@ Ver(5, 2, 0) :> "h2"

\* C18: latest-stable selection. Once main has enumerated the tags of
\* work.git, in whatever order, newestVersion is the greatest of the
\* versions the tag names parse to (one leading "v" taken off); a name that
\* does not parse is passed over and never ends the enumeration with an
\* error; and a stable catalog that has been read is the catalog at the
\* commit targeted by the tag named "v" + that greatest version.
C18_LatestStable ==
    /\ (mpc \notin {"off", "begin", "foreach"} /\ fatalAt # 64) =>
         /\ ParsedTags # {} =>
              /\ newestVersion \in ParsedTags
              /\ \A w \in ParsedTags : ~GreaterThan(w, newestVersion)
         /\ ParsedTags = {} => newestVersion = Unspecified
    /\ fatalAt # 83
    /\ mpc = "foreach" => mainErr = "nil"
    /\ (mpc \in {"unstable", "create", "branches", "exit"} \/ fatalAt \in {112, 117, 121}) =>
         \E ref \in tfRepo.tags :
           /\ ParseVersion(StripV(ref.Name)).ok
           /\ ParseVersion(StripV(ref.Name)).v = newestVersion
           /\ ref.Annotated
           /\ latestStableCommit = ref.Target
           /\ stableProtoBlobRefs = CatalogAt(ref.Target)

\* work.git holds the tags v0.2.0 and v1.0.0, the second at commit c2,
\* whose catalog createStableTags was called with, and main has ended.
C18_Witness ==
    /\ mpc = "exit"
    /\ {ref.Name : ref \in tfRepo.tags} =
         {<< "v", "0", ".", "2", ".", "0" >>, << "v", "1", ".", "0", ".", "0" >>}
    /\ newestVersion = Ver(1, 0, 0)
    /\ latestStableCommit = "c2"
    /\ \E ref \in tfRepo.tags : ref.Target = "c1" /\ ref.Annotated
    /\ DOMAIN blobs[1] = {Ver(5, 1, 0), Ver(5, 2, 0)}

====
